---- MODULE Spec2Model ----
(***************************************************************************)
(* Model of parquet-viewer's two local servers.                            *)
(*                                                                         *)
(*   utils/parquet-viewer.py    CORSRequestHandler: the single-file HTTP   *)
(*                              server with byte-range support (Spec).     *)
(*   src/bin/parquet_viewer.py  the websocket control channel and the      *)
(*                              HTTP server it starts in file mode         *)
(*                              (SessionSpec).                             *)
(*                                                                         *)
(* Text is a sequence of tokens.  A token is one character, except that    *)
(* the six characters "bytes=" are one token, so that str.replace works    *)
(* on whole tokens.  An optional value is <<>> (None) or <<x>>.            *)
(***************************************************************************)
EXTENDS Integers, Sequences, FiniteSets, TLC

\* ------------------------------------------------------------- bounds
MaxFileSize == 3
MaxHdrTokens == 4
MaxPathLen == 3

\* ------------------------------------------------------------ helpers
None == <<>>

Some(x) == <<x>>

Min(a, b) == IF a < b THEN a ELSE b

SeqsUpTo(S, n) == UNION {[1..k -> S] : k \in 0..n}

\* ------------------------------------------------- the file on disk
Bytes == {0, 1}

Contents == SeqsUpTo(Bytes, MaxFileSize)

\* The state of the served path on disk: absent, or a file with its bytes.
Missing == [exists |-> FALSE, data |-> <<>>]

FileStates == {Missing} \cup {[exists |-> TRUE, data |-> d] : d \in Contents}

\* --------------------------------------------------------------- text
Digits == {"0", "1", "2"}

HdrTokens == Digits \cup {"bytes=", "-", "x", "+"}

PathChars == {"/", "f", "g", "?"}

\* os.path.basename: what follows the last "/".
RECURSIVE basename(_)
basename(p) ==
    IF p = <<>> THEN <<>>
    ELSE IF p[Len(p)] = "/" THEN <<>>
    ELSE basename(SubSeq(p, 1, Len(p) - 1)) \o <<p[Len(p)]>>

\* str.replace('bytes=', ''): every occurrence is removed.
replace(s) == SelectSeq(s, LAMBDA t : t # "bytes=")

\* str.split(sep): the pieces between the separators, empty pieces kept.
RECURSIVE split(_, _)
split(s, sep) ==
    IF \A i \in 1..Len(s) : s[i] # sep THEN <<s>>
    ELSE LET i == CHOOSE k \in 1..Len(s) :
                      s[k] = sep /\ \A j \in 1..(k - 1) : s[j] # sep
         IN <<SubSeq(s, 1, i - 1)>> \o split(SubSeq(s, i + 1, Len(s)), sep)

DigitVal(t) == CASE t = "0" -> 0 [] t = "1" -> 1 [] t = "2" -> 2

\* int(s) raises ValueError unless s is an optional sign and one or more
\* digits (of the characters modelled; "-" never reaches int, split takes it).
IsIntLiteral(s) ==
    LET body == IF s # <<>> /\ s[1] = "+" THEN Tail(s) ELSE s
    IN body # <<>> /\ \A i \in 1..Len(body) : body[i] \in Digits

RECURSIVE DecimalVal(_)
DecimalVal(s) ==
    IF s = <<>> THEN 0
    ELSE 10 * DecimalVal(SubSeq(s, 1, Len(s) - 1)) + DigitVal(s[Len(s)])

int(s) == DecimalVal(IF s[1] = "+" THEN Tail(s) ELSE s)

\* The check with > for >=: a start at the very end of the file passes.
RangeUnsatisfiableStrict(range_start, file_size) == range_start > file_size

\* `if range_start >= file_size:` of do_GET.
RangeUnsatisfiable(range_start, file_size) == range_start >= file_size

\* ------------------------------------------------------- HTTP messages
\* A response as the client sees it.  statusLines lists every status line
\* written to the socket, in order; body is what wfile.write was given
\* (an error page is named by message, its HTML is not spelled out);
\* statted and opened record whether the handler touched the served file.
Response(lines, msg, crange, clen, body, statted, opened) ==
    [statusLines |-> lines, message |-> msg, contentRange |-> crange,
     contentLength |-> clen, body |-> body, statted |-> statted, opened |-> opened]

\* BaseHTTPRequestHandler.send_error after the status lines in `sent`.
send_error(sent, code, msg, statted, opened) ==
    Response(sent \o <<code>>, msg, None, None, <<>>, statted, opened)

\* A read that forgets the seek: the bytes come from the start of the file.
ReadFromNoSeek(data, start, n) ==
    IF n < 0 THEN data ELSE SubSeq(data, 1, Min(n, Len(data)))

\* f.seek(start); f.read(n): a negative n reads to the end of the file, and
\* a read never goes past the end.
ReadFrom(data, start, n) ==
    IF n < 0 THEN SubSeq(data, start + 1, Len(data))
    ELSE SubSeq(data, start + 1, Min(start + n, Len(data)))

\* f.read() of the branch without a range: the whole file.
ReadAllButLast(data) == SubSeq(data, 1, Len(data) - 1)

ReadAll(data) == data

\* `if range_header:` is false for an absent header and for an empty one.
Truthy(opt) == opt # None /\ opt[1] # <<>>

\* The body phase of do_GET: open the file again and write the bytes.
\* A file that vanished since the stat raises FileNotFoundError after the
\* headers went out, and send_error writes a second status line.
WriteBody(status, crange, clen, range_header, range_start, atOpen) ==
    IF ~atOpen.exists
    THEN Response(<<status, 404>>, "File not found on server", crange, Some(clen),
                  <<>>, TRUE, FALSE)
    ELSE Response(<<status>>, "", crange, Some(clen),
                  IF Truthy(range_header)
                  THEN ReadFrom(atOpen.data, range_start, clen)
                  ELSE ReadAll(atOpen.data),
                  TRUE, TRUE)

\* The range branch of do_GET, after the header was found to be present.
RangeBranch(range_header, file_size, atOpen) ==
    LET range_match == split(replace(range_header[1]), "-")
    IN IF ~IsIntLiteral(range_match[1])
       THEN send_error(<<>>, 400, "Invalid range header", TRUE, FALSE)
       ELSE IF Len(range_match) < 2
       THEN send_error(<<>>, 500, "Internal server error", TRUE, FALSE)
       ELSE IF range_match[2] # <<>> /\ ~IsIntLiteral(range_match[2])
       THEN send_error(<<>>, 400, "Invalid range header", TRUE, FALSE)
       ELSE LET range_start == int(range_match[1])
                range_end == IF range_match[2] # <<>> THEN int(range_match[2])
                             ELSE file_size - 1
            IN IF RangeUnsatisfiable(range_start, file_size)
               THEN send_error(<<>>, 416, "Requested range not satisfiable",
                               TRUE, FALSE)
               ELSE WriteBody(206, Some(<<range_start, range_end, file_size>>),
                              range_end - range_start + 1,
                              range_header, range_start, atOpen)

\* CORSRequestHandler.do_GET.  atStat is the served file when os.path.getsize
\* runs and atOpen the served file when open() runs.
do_GET(file_path, path, range_header, atStat, atOpen) ==
    LET expected_path == <<"/">> \o basename(file_path)
    IN IF path # expected_path
       THEN send_error(<<>>, 404, "File not found. Please use expected_path",
                       FALSE, FALSE)
       ELSE IF ~atStat.exists
       THEN send_error(<<>>, 404, "File not found on server", TRUE, FALSE)
       ELSE LET file_size == Len(atStat.data)
            IN IF Truthy(range_header)
               THEN RangeBranch(range_header, file_size, atOpen)
               ELSE WriteBody(200, None, file_size, range_header, 0, atOpen)

\* A HEAD built on do_GET's headers: it would report the range's length.
do_HEAD_ranged(file_path, path, range_header, atStat) ==
    [do_GET(file_path, <<"/">> \o basename(file_path), range_header, atStat, atStat)
        EXCEPT !.body = <<>>, !.opened = FALSE]

\* CORSRequestHandler.do_HEAD: no path check, no Range handling, no body.
do_HEAD(file_path, path, range_header, atStat) ==
    IF ~atStat.exists
    THEN send_error(<<>>, 404, "File not found on server", TRUE, FALSE)
    ELSE Response(<<200>>, "", None, Some(Len(atStat.data)), <<>>, TRUE, FALSE)

\* BaseHTTPRequestHandler.parse_request: a target that starts with "//" has
\* its leading slashes reduced to one before it becomes self.path.
RECURSIVE lstripSlash(_)
lstripSlash(p) == IF p # <<>> /\ p[1] = "/" THEN lstripSlash(Tail(p)) ELSE p

request_path(target) ==
    IF Len(target) >= 2 /\ target[1] = "/" /\ target[2] = "/"
    THEN <<"/">> \o lstripSlash(target)
    ELSE target

\* ------------------------------------------------------------ requests
Methods == {"GET", "HEAD"}

\* The paths the server can be constructed with (args.file).
FilePaths == {<<"f">>, <<"g", "/", "f">>}

\* Request targets: they start with "/".
PathSet == {p \in SeqsUpTo(PathChars, MaxPathLen) : p # <<>> /\ p[1] = "/"}

\* Range header values: every token string up to the bound.
RangeValues == SeqsUpTo(HdrTokens, MaxHdrTokens)

ProbeRanges == {None, Some(<<"bytes=", "0", "-", "1">>), Some(<<"bytes=", "1", "-">>),
                Some(<<"x">>)}

Request(m, p, r) == [method |-> m, path |-> p, range |-> r]

\* Every Range value is tried on the served path; every path is tried with
\* and without a range, for both methods.
Requests ==
    {Request("GET", <<"/">> \o basename(fp), r) :
        fp \in FilePaths, r \in {None} \cup {Some(v) : v \in RangeValues}}
    \cup {Request(m, p, r) : m \in Methods, p \in PathSet, r \in ProbeRanges}

\* ------------------------------------------- the range server's state
\* (utils/parquet-viewer.py)
VARIABLES
    file_path,   \* CORSRequestHandler.file_path, fixed at construction
    file,        \* the served path on disk
    req,         \* the request being answered: None, or <<request>>
    resp,        \* its response: None, or <<response>>
    at_stat,     \* the file as os.path.getsize saw it, while a GET is handled
    served206    \* a 206 was delivered on an earlier exchange

hvars == <<file_path, file, req, resp, at_stat, served206>>

ServerInit ==
    /\ file_path \in FilePaths
    /\ file \in FileStates
    /\ req = None
    /\ resp = None
    /\ at_stat = None
    /\ served206 = FALSE

\* ------------------------------------------------ the session's state
\* (src/bin/parquet_viewer.py)
MaxConns == 2

Conns == 1..MaxConns

\* The files of the directory that holds the parquet file.
Names == {"f", "g"}

VARIABLES
    sql_query,     \* args.sql: None, or <<text>>
    parquet_file,  \* args.file: None, or <<path>>
    dir,           \* the directory on disk: name -> file state
    pc,            \* where each connection's handler is
    sent,          \* the instructions written to each connection, in order
    rx,            \* the last outcome of websocket.recv(): None, or <<outcome>>
    httpd,         \* the HTTP server each handler started
    port,          \* and the port it is bound to (0: none)
    ws_server,     \* the websocket listener
    ws_closes,     \* how many times close() was called on it
    done,          \* main's asyncio.Event
    main_pc,       \* where main is
    dp             \* the last data-plane exchange: None, or <<exchange>>

svars == <<sql_query, parquet_file, dir, pc, sent, rx, httpd, port, ws_server,
           ws_closes, done, main_pc, dp>>

vars == <<hvars, svars>>

\* BaseHTTPRequestHandler.handle_one_request dispatching to do_GET / do_HEAD.
Dispatch(r, onDisk) ==
    IF r.method = "GET"
    THEN do_GET(file_path, request_path(r.path), r.range, onDisk, onDisk)
    ELSE do_HEAD(file_path, request_path(r.path), r.range, onDisk)

\* A client sends a request and the handler answers it.
Handle(r) ==
    /\ req' = Some(r)
    /\ resp' = Some(Dispatch(r, file))
    /\ UNCHANGED <<file_path, file, at_stat, served206>>
    /\ UNCHANGED svars

\* The client takes the response; the connection is ready for the next request.
ClientRead ==
    /\ req # None
    /\ resp # None
    /\ req' = None
    /\ resp' = None
    /\ at_stat' = None
    /\ served206' = (served206 \/ resp[1].statusLines = <<206>>)
    /\ UNCHANGED <<file_path, file>>
    /\ UNCHANGED svars

\* Another process replaces, truncates, grows or deletes the file.
ExternalChange(f) ==
    /\ f # file
    /\ file' = f
    /\ UNCHANGED <<file_path, req, resp, at_stat, served206>>
    /\ UNCHANGED svars

\* do_GET up to os.path.getsize: the handler thread has taken the request
\* and read the file's size; a missing file is found missing here.
GetSize(r) ==
    /\ req' = Some(r)
    /\ at_stat' = Some(file)
    /\ UNCHANGED <<file_path, file, resp, served206>>
    /\ UNCHANGED svars

\* The rest of do_GET: the headers, then open() and the body, on the file
\* as it is by now.
WriteResponse ==
    /\ req # None
    /\ resp = None
    /\ resp' = Some(do_GET(file_path, request_path(req[1].path), req[1].range,
                           at_stat[1], file))
    /\ UNCHANGED <<file_path, file, req, at_stat, served206>>
    /\ UNCHANGED svars

\* One exchange at a time: a request is taken, and the file is changed, only
\* while no response is waiting to be read.
Next ==
    \/ req = None /\ \E r \in Requests : Handle(r)
    \/ ClientRead
    \/ req = None /\ \E f \in FileStates : ExternalChange(f)

\* The requests of the runs in which the file changes while a GET is being
\* handled.
RaceRequests == {Request("GET", <<"/", "f">>, r) : r \in ProbeRanges}

\* The file changes at any moment, also between getsize and open.
RaceNext ==
    \/ req = None /\ \E r \in RaceRequests : GetSize(r)
    \/ WriteResponse
    \/ ClientRead
    \/ \E f \in FileStates : ExternalChange(f)

\* ------------------------------------------- the session's data plane
\* SimpleHTTPRequestHandler.translate_path: the query is dropped, and the
\* non-empty pieces between slashes are the words of the local path.
path_only(p) == split(p, "?")[1]

words(p) == SelectSeq(split(path_only(p), "/"), LAMBDA w : w # <<>>)

trailing_slash(p) == path_only(p) # <<>> /\ path_only(p)[Len(path_only(p))] = "/"

SimpleResponse(status, entity, clen, body) ==
    [statusLines |-> <<status>>, entity |-> entity, contentRange |-> None,
     contentLength |-> clen, body |-> body]

\* The Handler class of start_http_server: SimpleHTTPRequestHandler over the
\* directory d.  It serves the directory's listing and every file in it, and
\* it never looks at the Range header.
Handler_do_GET(d, path, range_header) ==
    LET ws == words(path)
    IN IF ws = <<>>
       THEN SimpleResponse(200, <<"listing">> \o
                <<{n \in Names : d[n].exists}>>, None, <<>>)
       ELSE IF /\ Len(ws) = 1
               /\ Len(ws[1]) = 1
               /\ ws[1][1] \in Names
               /\ d[ws[1][1]].exists
               /\ ~trailing_slash(path)
       THEN SimpleResponse(200, <<"file", ws[1][1]>>,
                           Some(Len(d[ws[1][1]].data)), d[ws[1][1]].data)
       ELSE SimpleResponse(404, <<"error">>, None, <<>>)

\* The requests a viewer makes of the session's data plane.
SessionRanges == {None, Some(<<"bytes=", "1", "-">>), Some(<<"bytes=", "0", "-">>)}

DataRequests == {Request("GET", p, r) : p \in PathSet, r \in SessionRanges}

\* ---------------------------------------------------- control channel
\* The frames of the control channel are JSON texts; an instruction is
\* written here as the JSON value json.dumps encodes.
\* The SQL frame of local_server.py, which the viewer of this protocol
\* does not read as an instruction.
SqlMessageFlat(q) == [message_type |-> "sql", query |-> q]

SqlMessage(q) == [sql |-> [query |-> q]]

FileMessage(name, http_port) ==
    [parquet_file |-> [file_name |-> name, server_address |-> http_port]]

\* Inbound text frames.
Frames == {"{\"message_type\":\"ack\"}", "{\"message_type\":\"nope\"}", "{}",
           "[]", "\"ack\"", "1", "null", "ack"}

\* json.loads on those texts: whether it parses, what kind of value it is,
\* and the value under "message_type" when it is an object.
json_loads(t) ==
    CASE t = "{\"message_type\":\"ack\"}" ->
            [valid |-> TRUE, kind |-> "object", message_type |-> Some("ack")]
      [] t = "{\"message_type\":\"nope\"}" ->
            [valid |-> TRUE, kind |-> "object", message_type |-> Some("nope")]
      [] t = "{}" -> [valid |-> TRUE, kind |-> "object", message_type |-> None]
      [] t = "[]" -> [valid |-> TRUE, kind |-> "array", message_type |-> None]
      [] t = "\"ack\"" -> [valid |-> TRUE, kind |-> "string", message_type |-> None]
      [] t = "1" -> [valid |-> TRUE, kind |-> "number", message_type |-> None]
      [] t = "null" -> [valid |-> TRUE, kind |-> "null", message_type |-> None]
      [] OTHER -> [valid |-> FALSE, kind |-> "", message_type |-> None]

\* What one pass of the receive loop does with a frame: "ack" leaves the
\* loop, "wait" goes round again, "error" is an exception that is neither
\* JSONDecodeError nor ConnectionClosed and leaves handle_connection.
\* response_json.get exists on a dict only.
RecvOutcome(t) ==
    LET response_json == json_loads(t)
    IN IF ~response_json.valid THEN "wait"
       ELSE IF response_json.kind # "object" THEN "error"
       ELSE IF response_json.message_type = Some("ack") THEN "ack"
       ELSE "wait"

\* `if sql_query:`: None and the empty string are false.
QueryGiven(opt) == opt # None /\ opt[1] # ""

\* Handler c is in a stretch of code with no await in it, so nothing else
\* runs on the event loop: from the start of the handler to the file
\* instruction's send when no SQL instruction was awaited, and inside the
\* blocking http_server.shutdown().
Holds(c) ==
    \/ pc[c] \in {"send", "shutdown"}
    \/ pc[c] = "file" /\ ~QueryGiven(sql_query)

\* The event loop can run another step.
LoopFree == \A c \in Conns : ~Holds(c)

\* The event loop can run the next step of handler c.
LoopFreeFor(c) == \A d \in Conns \ {c} : ~Holds(d)

\* The states of an HTTP server whose listening socket is open: the serving
\* thread waits in serve_forever ("serving"), is inside the one request it
\* handles at a time ("busy"), or has left serve_forever ("stopped").
Listening == {"serving", "busy", "stopped"}

\* find_free_port: a port no running server of this process is bound to.
find_free_port ==
    CHOOSE p \in Conns :
        /\ \A c \in Conns : httpd[c] \in Listening => port[c] # p
        /\ \A q \in Conns :
              (\A c \in Conns : httpd[c] \in Listening => port[c] # q)
                 => p <= q

\* ------------------------------------------------------ configuration
Queries == {"", "SELECT 1"}

\* argparse's required, mutually exclusive group: -q or -f, never both.
Configs ==
    {<<Some(q), None>> : q \in Queries}
    \cup {<<None, Some(p)>> : p \in {<<>>} \cup FilePaths}

Sibling == [exists |-> TRUE, data |-> <<1, 0>>]

\* The session before any client has connected, main waiting on `done`.
SessionStart(configs, files) ==
    /\ \E cfg \in configs : sql_query = cfg[1] /\ parquet_file = cfg[2]
    /\ \E f \in files : dir = [n \in Names |-> IF n = "f" THEN f ELSE Sibling]
    /\ pc = [c \in Conns |-> "idle"]
    /\ sent = [c \in Conns |-> <<>>]
    /\ rx = None
    /\ httpd = [c \in Conns |-> "none"]
    /\ port = [c \in Conns |-> 0]
    /\ ws_server = "listening"
    /\ ws_closes = 0
    /\ done = FALSE
    /\ main_pc = "wait"
    /\ dp = None

\* The range server's variables while the session program is the one running.
ServerOff ==
    /\ file_path = <<"f">>
    /\ file = Missing
    /\ req = None
    /\ resp = None
    /\ at_stat = None
    /\ served206 = FALSE

\* The session's variables while the range server is the one running.
SessionOff ==
    /\ sql_query = None
    /\ parquet_file = None
    /\ dir = [n \in Names |-> Missing]
    /\ pc = [c \in Conns |-> "idle"]
    /\ sent = [c \in Conns |-> <<>>]
    /\ rx = None
    /\ httpd = [c \in Conns |-> "none"]
    /\ port = [c \in Conns |-> 0]
    /\ ws_server = "closed"
    /\ ws_closes = 0
    /\ done = FALSE
    /\ main_pc = "exit"
    /\ dp = None

\* --------------------------------------------------- handle_connection
\* A viewer connects and the handler runs to its first await: the SQL
\* instruction, if a query is configured.  Connections are numbered in the
\* order they arrive.
Connect(c) ==
    /\ ws_server = "listening"
    /\ main_pc # "exit"
    /\ LoopFree
    /\ pc[c] = "idle"
    /\ \A d \in Conns : d < c => pc[d] # "idle"
    /\ sent' = [sent EXCEPT ![c] =
                   IF QueryGiven(sql_query)
                   THEN Append(@, SqlMessage(sql_query[1])) ELSE @]
    /\ pc' = [pc EXCEPT ![c] = "file"]
    /\ UNCHANGED <<sql_query, parquet_file, dir, rx, httpd, port, ws_server, ws_closes,
                   done, main_pc, dp>>
    /\ UNCHANGED hvars

\* FileBlock with start_http_server left for later: the port is chosen but
\* nothing is bound to it when the instruction goes out.
FileBlockUnbound(c) ==
    /\ pc[c] = "file"
    /\ main_pc # "exit"
    /\ LoopFreeFor(c)
    /\ IF ~Truthy(parquet_file)
       THEN /\ pc' = [pc EXCEPT ![c] = "recv"]
            /\ UNCHANGED <<sent, httpd, port>>
       ELSE IF ~dir[basename(parquet_file[1])[1]].exists
       THEN /\ pc' = [pc EXCEPT ![c] = "nofile"]
            /\ UNCHANGED <<sent, httpd, port>>
       ELSE LET http_port == find_free_port
            IN /\ port' = [port EXCEPT ![c] = http_port]
               /\ pc' = [pc EXCEPT ![c] = "send"]
               /\ UNCHANGED <<sent, httpd>>
    /\ UNCHANGED <<sql_query, parquet_file, dir, rx, ws_server, ws_closes, done,
                   main_pc, dp>>
    /\ UNCHANGED hvars

\* The `if parquet_file:` block up to start_http_server: a missing file
\* closes the connection and returns; otherwise HTTPServer(...) binds a free
\* port and listens on it, and the serving thread is started.
FileBlock(c) ==
    /\ pc[c] = "file"
    /\ main_pc # "exit"
    /\ LoopFreeFor(c)
    /\ IF ~Truthy(parquet_file)
       THEN /\ pc' = [pc EXCEPT ![c] = "recv"]
            /\ UNCHANGED <<sent, httpd, port>>
       ELSE IF ~dir[basename(parquet_file[1])[1]].exists
       THEN /\ pc' = [pc EXCEPT ![c] = "nofile"]
            /\ UNCHANGED <<sent, httpd, port>>
       ELSE LET http_port == find_free_port
            IN /\ httpd' = [httpd EXCEPT ![c] = "serving"]
               /\ port' = [port EXCEPT ![c] = http_port]
               /\ pc' = [pc EXCEPT ![c] = "send"]
               /\ UNCHANGED sent
    /\ UNCHANGED <<sql_query, parquet_file, dir, rx, ws_server, ws_closes, done,
                   main_pc, dp>>
    /\ UNCHANGED hvars

\* `await websocket.send(json.dumps(file_message))`: the file instruction
\* names the port start_http_server was given.
SendFileMessage(c) ==
    /\ pc[c] = "send"
    /\ main_pc # "exit"
    /\ LoopFreeFor(c)
    /\ sent' = [sent EXCEPT ![c] =
                   Append(@, FileMessage(basename(parquet_file[1]), port[c]))]
    /\ pc' = [pc EXCEPT ![c] = "recv"]
    /\ UNCHANGED <<sql_query, parquet_file, dir, rx, httpd, port, ws_server,
                   ws_closes, done, main_pc, dp>>
    /\ UNCHANGED hvars

\* `await websocket.close(); return` of the missing-file branch, then
\* connection_handler's done.set().
NoFileReturn(c) ==
    /\ pc[c] = "nofile"
    /\ main_pc # "exit"
    /\ LoopFree
    /\ pc' = [pc EXCEPT ![c] = "done"]
    /\ done' = TRUE
    /\ UNCHANGED <<sql_query, parquet_file, dir, sent, rx, httpd, port, ws_server, ws_closes,
                   main_pc, dp>>
    /\ UNCHANGED hvars

\* One pass of the receive loop on an inbound text frame.  An exception that
\* is not JSONDecodeError is caught by `except Exception` outside the loop:
\* the handler returns and connection_handler sets `done`.
Recv(c, t) ==
    /\ pc[c] = "recv"
    /\ main_pc # "exit"
    /\ LoopFree
    /\ rx' = Some([conn |-> c, closed |-> FALSE, frame |-> t])
    /\ pc' = [pc EXCEPT ![c] =
                 CASE RecvOutcome(t) = "ack" -> "ack"
                   [] RecvOutcome(t) = "error" -> "done"
                   [] OTHER -> "recv"]
    /\ done' = (done \/ RecvOutcome(t) = "error")
    /\ UNCHANGED <<sql_query, parquet_file, dir, sent, httpd, port, ws_server, ws_closes,
                   main_pc, dp>>
    /\ UNCHANGED hvars

\* websocket.recv() raises ConnectionClosed: the peer went away, or the
\* listener was closed and took the connection with it.  The handler logs
\* "Client disconnected" and returns; connection_handler sets `done`.
RecvClosed(c) ==
    /\ pc[c] = "recv"
    /\ main_pc # "exit"
    /\ LoopFree
    /\ rx' = Some([conn |-> c, closed |-> TRUE, frame |-> ""])
    /\ pc' = [pc EXCEPT ![c] = "done"]
    /\ done' = TRUE
    /\ UNCHANGED <<sql_query, parquet_file, dir, sent, httpd, port, ws_server, ws_closes,
                   main_pc, dp>>
    /\ UNCHANGED hvars

\* After the ack: `await websocket.close()` returns.  In file mode the
\* handler then calls http_server.shutdown(), which blocks the event loop
\* until the serving thread leaves serve_forever; in query mode it closes
\* the listener and returns, and connection_handler sets `done`.
AckClose(c) ==
    /\ pc[c] = "ack"
    /\ main_pc # "exit"
    /\ LoopFree
    /\ IF Truthy(parquet_file)
       THEN /\ pc' = [pc EXCEPT ![c] = "shutdown"]
            /\ UNCHANGED <<ws_server, ws_closes, done>>
       ELSE /\ pc' = [pc EXCEPT ![c] = "done"]
            /\ ws_server' = "closed"
            /\ ws_closes' = ws_closes + 1
            /\ done' = TRUE
    /\ UNCHANGED <<sql_query, parquet_file, dir, sent, rx, httpd, port, main_pc, dp>>
    /\ UNCHANGED hvars

\* The serving thread sees the shutdown request and leaves serve_forever.
ServeLoopExit(c) ==
    /\ pc[c] = "shutdown"
    /\ httpd[c] = "serving"
    /\ httpd' = [httpd EXCEPT ![c] = "stopped"]
    /\ UNCHANGED <<sql_query, parquet_file, dir, pc, sent, rx, port, ws_server, ws_closes,
                   done, main_pc, dp>>
    /\ UNCHANGED hvars

\* http_server.shutdown() returns; server_close(); server.close(); the
\* handler returns and connection_handler sets `done`.
ShutdownReturn(c) ==
    /\ pc[c] = "shutdown"
    /\ httpd[c] = "stopped"
    /\ httpd' = [httpd EXCEPT ![c] = "closed"]
    /\ ws_server' = "closed"
    /\ ws_closes' = ws_closes + 1
    /\ done' = TRUE
    /\ pc' = [pc EXCEPT ![c] = "done"]
    /\ UNCHANGED <<sql_query, parquet_file, dir, sent, rx, port, main_pc, dp>>
    /\ UNCHANGED hvars

\* ----------------------------------------------------------------- main
\* done.wait() returns; ws_server.close().
MainWake ==
    /\ main_pc = "wait"
    /\ done
    /\ LoopFree
    /\ ws_server' = "closed"
    /\ ws_closes' = ws_closes + 1
    /\ main_pc' = "wait_closed"
    /\ UNCHANGED <<sql_query, parquet_file, dir, pc, sent, rx, httpd, port, done, dp>>
    /\ UNCHANGED hvars

\* ws_server.wait_closed() returns once every connection handler has
\* finished; main returns and the process exits.
MainExit ==
    /\ main_pc = "wait_closed"
    /\ LoopFree
    /\ \A c \in Conns : pc[c] \in {"idle", "done"}
    /\ main_pc' = "exit"
    /\ UNCHANGED <<sql_query, parquet_file, dir, pc, sent, rx, httpd, port,
                   ws_server, ws_closes, done, dp>>
    /\ UNCHANGED hvars

\* ------------------------------------------------ data-plane exchanges
\* A viewer that was sent a file instruction fetches from the port it names.
DataGet(c, r) ==
    /\ httpd[c] = "serving"
    /\ pc[c] # "shutdown"
    /\ \E i \in 1..Len(sent[c]) : sent[c][i] = FileMessage(<<"f">>, port[c])
    /\ dp' = Some([port |-> port[c], req |-> r,
                   resp |-> Handler_do_GET(dir, request_path(r.path), r.range)])
    /\ UNCHANGED <<sql_query, parquet_file, dir, pc, sent, rx, httpd, port,
                   ws_server, ws_closes, done, main_pc>>
    /\ UNCHANGED hvars

\* A client connects to the port and sends nothing, or part of a request:
\* the serving thread accepts it and waits in the handler for the request
\* line.  HTTPServer handles one request at a time, in that thread.
DataStall(c) ==
    /\ httpd[c] = "serving"
    /\ pc[c] # "shutdown"
    /\ httpd' = [httpd EXCEPT ![c] = "busy"]
    /\ UNCHANGED <<sql_query, parquet_file, dir, pc, sent, rx, port, ws_server,
                   ws_closes, done, main_pc, dp>>
    /\ UNCHANGED hvars

\* That client sends the rest of its request, or goes away: the handler
\* returns and the serving thread is back in serve_forever.
DataResume(c) ==
    /\ httpd[c] = "busy"
    /\ httpd' = [httpd EXCEPT ![c] = "serving"]
    /\ UNCHANGED <<sql_query, parquet_file, dir, pc, sent, rx, port, ws_server,
                   ws_closes, done, main_pc, dp>>
    /\ UNCHANGED hvars

\* The viewer takes the response.
DataRead ==
    /\ dp # None
    /\ dp' = None
    /\ UNCHANGED <<sql_query, parquet_file, dir, pc, sent, rx, httpd, port,
                   ws_server, ws_closes, done, main_pc>>
    /\ UNCHANGED hvars

\* ------------------------------------------------------ specifications
\* The range server of utils/parquet-viewer.py.
Init == ServerInit /\ SessionOff

Spec == Init /\ [][Next]_vars

\* The range server with the served file changing under it.
RaceSpec == Init /\ [][RaceNext]_vars

\* A session of src/bin/parquet_viewer.py: the control channel and main.
SessionFiles == {Missing, [exists |-> TRUE, data |-> <<>>]}

SessionInit == ServerOff /\ SessionStart(Configs, SessionFiles)

SessionNext ==
    \/ \E c \in Conns : Connect(c)
    \/ \E c \in Conns : FileBlock(c)
    \/ \E c \in Conns : SendFileMessage(c)
    \/ \E c \in Conns : NoFileReturn(c)
    \/ \E c \in Conns : \E t \in Frames : Recv(c, t)
    \/ \E c \in Conns : RecvClosed(c)
    \/ \E c \in Conns : AckClose(c)
    \/ \E c \in Conns : ServeLoopExit(c)
    \/ \E c \in Conns : ShutdownReturn(c)
    \/ \E c \in Conns : DataStall(c)
    \/ \E c \in Conns : DataResume(c)
    \/ MainWake
    \/ MainExit

SessionSpec == SessionInit /\ [][SessionNext]_vars

\* What the program can count on from its scheduling: the event loop runs
\* every task that is ready, the serving thread gets to run, and a closed
\* listener closes the connections it accepted, which ends their recv().
\* Nothing obliges a client to send a frame, to connect, or to finish a
\* request it has begun: the request socket has no timeout.
Fairness ==
    /\ \A c \in Conns :
          /\ WF_vars(FileBlock(c))
          /\ WF_vars(SendFileMessage(c))
          /\ WF_vars(NoFileReturn(c))
          /\ WF_vars(AckClose(c))
          /\ WF_vars(ServeLoopExit(c))
          /\ WF_vars(ShutdownReturn(c))
          /\ WF_vars(ws_server = "closed" /\ RecvClosed(c))
    /\ WF_vars(MainWake)
    /\ WF_vars(MainExit)

FairSessionSpec == SessionInit /\ [][SessionNext]_vars /\ Fairness

\* A file-mode session with its first viewer, and that viewer's fetches from
\* the data plane, over every content of the file.
FileModeInit ==
    ServerOff /\ SessionStart({<<None, Some(p)>> : p \in FilePaths}, FileStates)

FileModeNext ==
    \/ Connect(1)
    \/ FileBlock(1)
    \/ SendFileMessage(1)
    \/ NoFileReturn(1)
    \/ \E t \in Frames : Recv(1, t)
    \/ RecvClosed(1)
    \/ AckClose(1)
    \/ ServeLoopExit(1)
    \/ ShutdownReturn(1)
    \/ MainWake
    \/ MainExit
    \/ dp = None /\ \E r \in DataRequests : DataGet(1, r)
    \/ DataRead

FileModeSpec == FileModeInit /\ [][FileModeNext]_vars

\* ================================================== the claims, Spec
\* What the claims say of a request, written without the handler's parser.
DigitTok(n) ==
    CASE n = 0 -> "0" [] n = 1 -> "1" [] n = 2 -> "2" [] n = 3 -> "3" [] n = 4 -> "4"
      [] n = 5 -> "5" [] n = 6 -> "6" [] n = 7 -> "7" [] n = 8 -> "8" [] n = 9 -> "9"

RECURSIVE Decimal(_)
Decimal(n) == IF n < 10 THEN <<DigitTok(n)>> ELSE Decimal(n \div 10) \o <<DigitTok(n % 10)>>

\* 'bytes=<start>-<end>'
ClosedRange(start, end) == <<"bytes=">> \o Decimal(start) \o <<"-">> \o Decimal(end)

ServedPath == <<"/", "f">>

\* The grammar of the claims, read strictly: 'bytes=' digits '-' [digits].
IsDigits(s) == s # <<>> /\ \A i \in 1..Len(s) : s[i] \in Digits

FirstDash(h) == CHOOSE i \in 1..Len(h) : h[i] = "-" /\ \A j \in 1..(i - 1) : h[j] # "-"

HasStart(h) ==
    /\ Len(h) >= 3
    /\ h[1] = "bytes="
    /\ \E i \in 3..Len(h) : h[i] = "-"
    /\ IsDigits(SubSeq(h, 2, FirstDash(h) - 1))

EndText(h) == SubSeq(h, FirstDash(h) + 1, Len(h))

WellFormedRange(h) == HasStart(h) /\ (EndText(h) = <<>> \/ IsDigits(EndText(h)))

RECURSIVE Value(_)
Value(ds) ==
    IF ds = <<>> THEN 0
    ELSE 10 * Value(SubSeq(ds, 1, Len(ds) - 1))
         + (CHOOSE n \in 0..9 : DigitTok(n) = ds[Len(ds)])

SpelledStart(h) == Value(SubSeq(h, 2, FirstDash(h) - 1))

SpelledEnd(h) == Value(EndText(h))

\* A GET is being answered for the served path, the file being on disk.
GetOnServed ==
    /\ req # None
    /\ req[1].method = "GET"
    /\ request_path(req[1].path) = ServedPath
    /\ file.exists

HeadOnServed ==
    /\ req # None
    /\ req[1].method = "HEAD"
    /\ request_path(req[1].path) = ServedPath
    /\ file.exists

\* C1: a GET of the served path with 'Range: bytes=<start>-<end>',
\* 0 <= start <= end < N, N the file's size, is answered 206 with
\* 'Content-Range: bytes <start>-<end>/<N>', Content-Length end-start+1 and
\* the file's bytes start..end as the body.
C1_ValidRangeServed ==
    (/\ GetOnServed
     /\ req[1].range # None
     /\ WellFormedRange(req[1].range[1])
     /\ EndText(req[1].range[1]) # <<>>
     /\ SpelledStart(req[1].range[1]) <= SpelledEnd(req[1].range[1])
     /\ SpelledEnd(req[1].range[1]) < Len(file.data))
    => LET start == SpelledStart(req[1].range[1])
           end == SpelledEnd(req[1].range[1])
       IN /\ resp[1].statusLines = <<206>>
          /\ resp[1].contentRange = Some(<<start, end, Len(file.data)>>)
          /\ resp[1].contentLength = Some(end - start + 1)
          /\ resp[1].body = SubSeq(file.data, start + 1, end + 1)

C1_Witness ==
    /\ GetOnServed
    /\ req[1].range = Some(ClosedRange(1, 2))
    /\ file.data = <<0, 1, 0>>
    /\ resp[1].statusLines = <<206>>
    /\ resp[1].body = <<1, 0>>

C4_FullFileServed ==
    (GetOnServed /\ req[1].range = None)
    => /\ resp[1].statusLines = <<200>>
       /\ resp[1].contentLength = Some(Len(file.data))
       /\ resp[1].contentRange = None
       /\ resp[1].body = file.data

C4_Witness ==
    /\ GetOnServed
    /\ req[1].range = None
    /\ file.data = <<>>
    /\ resp[1].statusLines = <<200>>
    /\ resp[1].contentLength = Some(0)

\* C5 as claimed: a GET or HEAD whose path is not '/' + basename of the
\* served file is answered 404, and the file is neither stat-ed nor opened.
C5_Original ==
    (req # None /\ request_path(req[1].path) # ServedPath)
    => /\ resp[1].statusLines = <<404>>
       /\ ~resp[1].statted
       /\ ~resp[1].opened

\* C7: a HEAD of the served path is answered 200 with Content-Length equal
\* to the file's size at that moment and no body, with or without a Range
\* header and whatever was served before.
C7_HeadReportsFullSize ==
    HeadOnServed
    => /\ resp[1].statusLines = <<200>>
       /\ resp[1].contentLength = Some(Len(file.data))
       /\ resp[1].contentRange = None
       /\ resp[1].body = <<>>

C7_Witness ==
    /\ HeadOnServed
    /\ served206
    /\ req[1].range = Some(ClosedRange(0, 1))
    /\ Len(file.data) = 3
    /\ resp[1].statusLines = <<200>>
    /\ resp[1].contentLength = Some(3)

\* C8 as claimed: a GET of the served path whose Range value is not empty
\* and not of the form 'bytes=<digits>-' or 'bytes=<digits>-<digits>' is
\* answered 400, never 206, 200 or 500.
C8_Original ==
    (/\ GetOnServed
     /\ Truthy(req[1].range)
     /\ ~WellFormedRange(req[1].range[1]))
    => resp[1].statusLines = <<400>>

\* ================================== the claims, FileModeSpec
\* C2 as claimed: the data plane of a file-mode session answers a GET of the
\* served path with 'Range: bytes=<start>-', start < N, by 206,
\* 'Content-Range: bytes <start>-<N-1>/<N>' and the bytes from start on.
C2_Original ==
    (/\ dp # None
     /\ dp[1].req.method = "GET"
     /\ request_path(dp[1].req.path) = ServedPath
     /\ dp[1].req.range # None
     /\ WellFormedRange(dp[1].req.range[1])
     /\ EndText(dp[1].req.range[1]) = <<>>
     /\ SpelledStart(dp[1].req.range[1]) < Len(dir["f"].data))
    => LET start == SpelledStart(dp[1].req.range[1])
           size == Len(dir["f"].data)
       IN /\ dp[1].resp.statusLines = <<206>>
          /\ dp[1].resp.contentRange = Some(<<start, size - 1, size>>)
          /\ dp[1].resp.body = SubSeq(dir["f"].data, start + 1, size)

\* C6 as claimed: the data plane of a file-mode session rejects every GET
\* whose path is not '/' + basename of the parquet file: no other file and
\* no directory listing is returned.
C6_Original ==
    (dp # None /\ request_path(dp[1].req.path) # ServedPath)
    => /\ dp[1].resp.statusLines = <<404>>
       /\ dp[1].resp.entity = <<"error">>

\* ==================================== the claims, SessionSpec
AckFrame == "{\"message_type\":\"ack\"}"

\* C9 as claimed: a frame that is not valid JSON with message_type "ack"
\* never ends the wait: the handler that read it is still in its receive
\* loop.
C9_Original ==
    (rx # None /\ ~rx[1].closed /\ rx[1].frame # AckFrame)
    => pc[rx[1].conn] = "recv"

\* The handler of c is past the point where it sends its instruction.
PastInstruction(c) == pc[c] \in {"nofile", "recv", "ack", "shutdown", "done"}

Owed(c) ==
    IF sql_query # None /\ sql_query[1] # ""
    THEN <<[sql |-> [query |-> sql_query[1]]]>>
    ELSE IF parquet_file # None /\ parquet_file[1] # <<>> /\ dir["f"].exists
    THEN <<[parquet_file |-> [file_name |-> <<"f">>, server_address |-> port[c]]]>>
    ELSE <<>>

C10_SentOnConnect ==
    \A c \in Conns :
        /\ Len(sent[c]) <= 1
        /\ pc[c] = "idle" => sent[c] = <<>>
        /\ PastInstruction(c) => sent[c] = Owed(c)
        /\ (rx # None /\ rx[1].conn = c) => sent[c] = Owed(c)

C10_NothingSentLater ==
    \A c \in Conns : PastInstruction(c) => sent'[c] = sent[c]

C11_Original ==
    \A c \in Conns :
        (pc[c] = "ack" /\ Truthy(parquet_file))
        ~> (main_pc = "exit" /\ ws_server = "closed" /\ httpd[c] = "closed")

\* An ack has been received on some connection: its handler is in the
\* teardown after the loop, or has been through it and closed the listener
\* itself (main closes it once, on waking).
AckReceived ==
    \/ \E d \in Conns : pc[d] \in {"ack", "shutdown"}
    \/ ws_closes > (IF main_pc = "wait" THEN 0 ELSE 1)

\* C12 as claimed: when the peer closes a control connection before any ack
\* has been received, the session ends without one: the handler of that
\* connection has returned, the completion event is set, the websocket
\* listener is closed and main returns.
C12_Original ==
    \A c \in Conns :
        (rx = Some([conn |-> c, closed |-> TRUE, frame |-> ""]) /\ ~AckReceived)
        ~> (pc[c] = "done" /\ done /\ ws_server = "closed" /\ main_pc = "exit")

\* ================================= the claims, SessionSpec (teardown)
\* C13 as claimed: on every path to the end of a file-mode session the HTTP
\* server is stopped before the websocket listener is closed, and the
\* listener before main returns: the listener is never closed, and main
\* has never returned, while an HTTP server that was started still runs.
C13_Original ==
    (ws_server = "closed" \/ main_pc = "exit")
    => \A c \in Conns : httpd[c] \notin {"serving", "busy"}

\* The step sends a file instruction on connection c.
SendsFileInstruction(c) ==
    /\ sent'[c] # sent[c]
    /\ "parquet_file" \in DOMAIN sent'[c][Len(sent'[c])]

\* C14: whenever a parquet_file instruction is sent on a connection, the
\* HTTP server of that connection is, at the moment of the send, bound to
\* the port the instruction names and listening on it, and no other server
\* of the process holds that port.
C14_ListeningBeforeSend ==
    [][\A c \in Conns :
          SendsFileInstruction(c)
          => /\ httpd[c] \in {"serving", "busy"}
             /\ sent'[c][Len(sent'[c])].parquet_file.server_address = port[c]
             /\ \A d \in Conns \ {c} : httpd[d] \in Listening => port[d] # port[c]
      ]_vars

\* The second viewer of a session has just been sent its instruction: it
\* names port 2, where that viewer's server listens, the first viewer's
\* server holding port 1.
C14_Witness ==
    /\ pc[2] = "recv"
    /\ sent[2] = <<FileMessage(<<"f">>, 2)>>
    /\ port = <<1, 2>>
    /\ httpd[1] \in Listening
    /\ httpd[2] = "serving"

\* C15 as claimed: over the life of the process the websocket listener
\* accepts one viewer: at most one connection handler has ever run, at most
\* one connection has been sent an instruction, and at most one HTTP server
\* has been started.
C15_Original ==
    /\ Cardinality({c \in Conns : pc[c] # "idle"}) <= 1
    /\ Cardinality({c \in Conns : sent[c] # <<>>}) <= 1
    /\ Cardinality({c \in Conns : httpd[c] # "none"}) <= 1

\* C16 as claimed: no step of the control plane waits on the data plane:
\* a handler that has its ack is never held, before it signals completion,
\* by a data-plane client whose request the serving thread is still inside,
\* and the event loop is never held with it.
C16_Original ==
    \A c \in Conns : ~(pc[c] = "shutdown" /\ httpd[c] = "busy" /\ ~LoopFree)

\* C17 as claimed: in a session with a query or a file configured (a
\* non-empty text), close() is never called twice on the websocket
\* listener, and when main has returned every listening socket the session
\* opened has been closed, once: the websocket listener and the listener of
\* every HTTP server a handler started.
C17_Original ==
    (QueryGiven(sql_query) \/ Truthy(parquet_file))
    => /\ ws_closes <= 1
       /\ main_pc = "exit"
          => /\ ws_server = "closed"
             /\ ws_closes = 1
             /\ \A c \in Conns : httpd[c] \in {"none", "closed"}

\* ============================================ the claims, Spec (ranges)
\* C18 as claimed: every 206 response of do_GET describes a range with
\* 0 <= start <= end < N, N the file's size; a Range header whose numbers
\* break that is never answered 206.
C18_Original ==
    (/\ req # None
     /\ req[1].method = "GET"
     /\ resp[1].statusLines[1] = 206)
    => /\ resp[1].contentRange # None
       /\ LET start == resp[1].contentRange[1][1]
              end == resp[1].contentRange[1][2]
              fileSize == resp[1].contentRange[1][3]
          IN 0 <= start /\ start <= end /\ end < fileSize

\* ================================================ the claims, RaceSpec
\* The file was found missing while the request was handled: by getsize, or
\* by open() in a request that gets as far as opening the file.
DeletedDuringHandling ==
    \/ ~at_stat[1].exists
    \/ /\ ~file.exists
       /\ do_GET(file_path, ServedPath, req[1].range, at_stat[1], at_stat[1]).opened

\* C19 as claimed: a GET of the served path during whose handling the file
\* is deleted, before the size is read or between that and open(), is
\* answered 404 and one status line is written for it, no more.
C19_Original ==
    [][(/\ req # None
        /\ resp = None
        /\ resp' # None
        /\ request_path(req[1].path) = ServedPath
        /\ DeletedDuringHandling)
       => resp'[1].statusLines = <<404>>]_vars

\* C20 as claimed: in every 200 or 206 response of do_GET the declared
\* Content-Length is not negative and is the number of body bytes written,
\* for every Range header that is accepted, and also when the file is
\* truncated or grown between getsize and the read of the body.
C20_Original ==
    (/\ req # None
     /\ resp # None
     /\ req[1].method = "GET"
     /\ resp[1].statusLines \in {<<200>>, <<206>>})
    => /\ resp[1].contentLength # None
       /\ resp[1].contentLength[1] >= 0
       /\ resp[1].contentLength[1] = Len(resp[1].body)

====
